---- MODULE Spec2Model ----
(***************************************************************************)
(* Model of the rock-paper-scissors App component (App.tsx): the play      *)
(* function, the Game class and the App's React state (games, network),    *)
(* its mount effect and its playGame callback.                             *)
(*                                                                         *)
(* The RPSNetwork class lives in the rps-network WASM package, which is    *)
(* not part of the TypeScript sources; it is modelled as an opaque object  *)
(* that holds the probability vector of its last forward pass and records  *)
(* the calls it observes.  Floats are modelled as integers in tenths       *)
(* (0.5 is 5); NaN and Infinity have their own encodings.                  *)
(***************************************************************************)
EXTENDS Integers, Sequences, FiniteSets, TLC

VARIABLES
    app,        \* which App build runs: "extended" (6 inputs), "minimal" (3 inputs)
                \* or "plain" (3 inputs, no probability table)
    games,      \* React state `games` (useState<Game[]>)
    network,    \* React state `network`: 0 is undefined, otherwise an index into nets
    showProbs,  \* React state `showProbs` (useState(false))
    dirty,      \* a state setter has run since the last render: a re-render is pending
    nets,       \* the RPSNetwork instances constructed so far
    effectPc,   \* position of the async function started by the mount effect
    cbGames,    \* `games` captured by the playGame closure of the last render
    cbNetwork,  \* `network` captured by the playGame closure of the last render
    mounted,    \* FALSE once a render has thrown and React has unmounted the tree
    calls,      \* the calls the RPSNetwork instances have observed, in order
    nPlays,     \* number of playGame invocations so far
    nToggles,   \* number of toggleProbs invocations so far
    lastPlay    \* locals and outcome of the last playGame invocation

vars == <<app, games, network, showProbs, dirty, nets, effectPc, cbGames,
          cbNetwork, mounted, calls, nPlays, nToggles, lastPlay>>

----------------------------------------------------------------------------
(* Bounds *)

MaxPlays == 2
MaxSelPlays == 1
MaxFaultPlays == 2
MaxToggles == 1

----------------------------------------------------------------------------
(* enum Choice, enum Outcome *)

ROCK == 0
PAPER == 1
SCISSORS == 2
Choice == {ROCK, PAPER, SCISSORS}

OutcomePlayer == "Player"
OutcomeComputer == "Computer"
OutcomeDraw == "Draw"

Undefined == 0

\* learning rate 0.1, in tenths
LearningRate == 1

----------------------------------------------------------------------------
(* Float values as the `>` of play sees them *)

NotANumber == 100
PosInfinity == 99

\* probs[i]: an index past the end of the array reads undefined, which `>`
\* converts to NaN
At(probs, i) == IF i + 1 <= Len(probs) THEN probs[i + 1] ELSE NotANumber

\* a > b on numbers: false as soon as one side is NaN
JsGreater(a, b) == IF a = NotANumber \/ b = NotANumber THEN FALSE ELSE a > b

----------------------------------------------------------------------------
(* winsOver *)

winsOver(choice) ==
    CASE choice = ROCK -> PAPER
      [] choice = PAPER -> SCISSORS
      [] choice = SCISSORS -> ROCK

----------------------------------------------------------------------------
(* The selection loop of play: for (let i = 1; i < 3; i++) ... *)

RECURSIVE SelectLoop(_, _, _)
SelectLoop(probs, computerChoice, i) ==
    IF i < 3
    THEN SelectLoop(probs,
                    IF JsGreater(At(probs, i), At(probs, computerChoice))
                    THEN i ELSE computerChoice,
                    i + 1)
    ELSE computerChoice

\* the loop replacing the best on a tie as well
RECURSIVE SelectLoop_LastMax(_, _, _)
SelectLoop_LastMax(probs, computerChoice, i) ==
    IF i < 3
    THEN SelectLoop_LastMax(probs,
                    IF ~JsGreater(At(probs, computerChoice), At(probs, i))
                    THEN i ELSE computerChoice,
                    i + 1)
    ELSE computerChoice

Select_LastMax(probs) == SelectLoop_LastMax(probs, ROCK, 1)

Select(probs) == SelectLoop(probs, ROCK, 1)

----------------------------------------------------------------------------
(* The input vector of play *)

\* new Float32Array(6) in the extended build, new Float32Array(3) in the other two
InputWidth(a) == IF a = "extended" THEN 6 ELSE 3

\* the computer's choice written into the player's block
Encode_NoOffset(a, playerChoice, computerChoice) ==
    LET zero == [i \in 1..InputWidth(a) |-> 0]
        one  == [zero EXCEPT ![playerChoice + 1] = 1]
    IN IF a = "extended"
       THEN [one EXCEPT ![computerChoice + 1] = 1]
       ELSE one

\* the one-hot of the minimal build set at the computer's choice
Encode_ComputerIndex(a, playerChoice, computerChoice) ==
    LET zero == [i \in 1..InputWidth(a) |-> 0]
        one  == [zero EXCEPT ![playerChoice + 1] = 1]
    IN IF a = "extended"
       THEN [one EXCEPT ![3 + computerChoice + 1] = 1]
       ELSE [zero EXCEPT ![computerChoice + 1] = 1]

Encode(a, playerChoice, computerChoice) ==
    LET zero == [i \in 1..InputWidth(a) |-> 0]
        one  == [zero EXCEPT ![playerChoice + 1] = 1]
    IN IF a = "extended"
       THEN [one EXCEPT ![3 + computerChoice + 1] = 1]
       ELSE one

----------------------------------------------------------------------------
(* class Game *)

Game(playerChoice, computerChoice) ==
    [playerChoice |-> playerChoice, computerChoice |-> computerChoice]

\* the getter with its two results exchanged
outcome_Swapped(g) ==
    IF winsOver(g.playerChoice) = g.computerChoice THEN OutcomePlayer
    ELSE IF winsOver(g.computerChoice) = g.playerChoice THEN OutcomeComputer
    ELSE OutcomeDraw

outcome(g) ==
    IF winsOver(g.playerChoice) = g.computerChoice THEN OutcomeComputer
    ELSE IF winsOver(g.computerChoice) = g.playerChoice THEN OutcomePlayer
    ELSE OutcomeDraw

----------------------------------------------------------------------------
(* The RPSNetwork boundary: the calls an instance observes *)

\* the constructor of the extended build left with the minimal build's width
ConstructWidth_Minimal(a) == 3

\* first argument of new m.RPSNetwork(...): 6 in the extended build, 3 in the other two
ConstructWidth(a) == IF a = "extended" THEN 6 ELSE 3

ConstructCall(inst, a) ==
    [op |-> "construct", inst |-> inst, inputWidth |-> ConstructWidth(a)]

ProbsCall(inst) == [op |-> "probs", inst |-> inst]

\* a learning rate that drops to zero after the first round
BackwardCall_Decaying(inst, a, input, target) ==
    [op |-> "backward", inst |-> inst,
     input |-> IF a = "extended" THEN <<>> ELSE input,
     target |-> target, lr |-> IF nPlays = 0 THEN LearningRate ELSE 0]

\* extended: network.backward(target, 0.1)
\* minimal and plain: network.backward(input, target, 0.1)
BackwardCall(inst, a, input, target) ==
    [op |-> "backward", inst |-> inst,
     input |-> IF a = "extended" THEN <<>> ELSE input,
     target |-> target, lr |-> LearningRate]

ForwardCall(inst, input) == [op |-> "forward", inst |-> inst, input |-> input]

\* probability vectors a forward pass may produce (tenths)
ProbOutputs == { <<5, 5, 5>>, <<3, 3, 9>>, <<1, 7, 7>>, <<9, 3, 1>> }

\* vectors that break the Network contract: NaN, Infinity, fewer than 3 entries
MalformedOutputs == { <<NotANumber, 7, 2>>, <<3, PosInfinity, 1>>, <<5, 7>>, <<>> }

\* where a Network call of play may throw
Faults == {"none", "probs", "backward", "forward"}

----------------------------------------------------------------------------
(* function play(network, playerChoice): Choice                            *)
(* inst is the network argument, output is what the forward pass produces, *)
(* fault names the Network call that throws, if any.                       *)

PlayResult(status, seen, computerChoice, madeCalls, forwarded) ==
    [status |-> status, probs |-> seen, computerChoice |-> computerChoice,
     calls |-> madeCalls, forwarded |-> forwarded]

\* play with the forward pass issued before the training step
play_ForwardFirst(inst, playerChoice, output, fault) ==
    IF inst = Undefined
    THEN PlayResult("TypeError", <<>>, ROCK, <<>>, FALSE)
    ELSE
    LET probs == nets[inst].probs
        computerChoice == Select(probs)
        input == Encode(app, playerChoice, computerChoice)
    IN PlayResult("ok", probs, computerChoice,
                  <<ProbsCall(inst), ForwardCall(inst, input),
                    BackwardCall(inst, app, input, winsOver(playerChoice))>>,
                  TRUE)

\* play with the selection made on the vector of its own forward pass
play_SelectAfterForward(inst, playerChoice, output, fault) ==
    IF inst = Undefined
    THEN PlayResult("TypeError", <<>>, ROCK, <<>>, FALSE)
    ELSE
    LET input == Encode(app, playerChoice, Select(nets[inst].probs))
    IN PlayResult("ok", output, Select(output),
                  <<BackwardCall(inst, app, input, winsOver(playerChoice)),
                    ForwardCall(inst, input), ProbsCall(inst)>>,
                  TRUE)

\* play that tolerates a missing network and answers ROCK
play_NoDereference(inst, playerChoice, output, fault) ==
    IF inst = Undefined
    THEN PlayResult("ok", <<>>, ROCK, <<>>, FALSE)
    ELSE
    LET probs == nets[inst].probs
        computerChoice == Select(probs)
        input == Encode(app, playerChoice, computerChoice)
    IN PlayResult("ok", probs, computerChoice,
                  <<ProbsCall(inst),
                    BackwardCall(inst, app, input, winsOver(playerChoice)),
                    ForwardCall(inst, input)>>,
                  TRUE)

\* play without the selection loop: the computer always answers ROCK
play_NoSelection(inst, playerChoice, output, fault) ==
    IF inst = Undefined
    THEN PlayResult("TypeError", <<>>, ROCK, <<>>, FALSE)
    ELSE
    LET probs == nets[inst].probs
        input == Encode(app, playerChoice, ROCK)
    IN PlayResult("ok", probs, ROCK,
                  <<ProbsCall(inst),
                    BackwardCall(inst, app, input, winsOver(playerChoice)),
                    ForwardCall(inst, input)>>,
                  TRUE)

\* play encoding the computer's choice of the previous Round
play_EncodePrevious(inst, playerChoice, output, fault) ==
    IF inst = Undefined
    THEN PlayResult("TypeError", <<>>, ROCK, <<>>, FALSE)
    ELSE
    LET probs == nets[inst].probs
        computerChoice == Select(probs)
        previous == IF cbGames = <<>> THEN ROCK
                    ELSE cbGames[Len(cbGames)].computerChoice
        input == Encode(app, playerChoice, previous)
    IN PlayResult("ok", probs, computerChoice,
                  <<ProbsCall(inst),
                    BackwardCall(inst, app, input, winsOver(playerChoice)),
                    ForwardCall(inst, input)>>,
                  TRUE)

play(inst, playerChoice, output, fault) ==
    IF inst = Undefined
    THEN \* network.probs() on undefined throws before anything else happens
         PlayResult("TypeError", <<>>, ROCK, <<>>, FALSE)
    ELSE
    LET probs == nets[inst].probs
        computerChoice == Select(probs)
        input == Encode(app, playerChoice, computerChoice)
        cProbs == ProbsCall(inst)
        cBackward == BackwardCall(inst, app, input, winsOver(playerChoice))
        cForward == ForwardCall(inst, input)
    IN CASE fault = "probs" ->
              PlayResult("NetworkError", <<>>, ROCK, <<cProbs>>, FALSE)
         [] fault = "backward" ->
              PlayResult("NetworkError", probs, computerChoice,
                         <<cProbs, cBackward>>, FALSE)
         [] fault = "forward" ->
              PlayResult("NetworkError", probs, computerChoice,
                         <<cProbs, cBackward, cForward>>, FALSE)
         [] OTHER ->
              PlayResult("ok", probs, computerChoice,
                         <<cProbs, cBackward, cForward>>, TRUE)

----------------------------------------------------------------------------
(* The App component *)

Apps == {"extended", "minimal", "plain"}

\* the builds whose App has the showProbs state and the probability table
HasProbsTable(a) == a \in {"extended", "minimal"}

NoPlay == [status |-> "none", playerChoice |-> ROCK, probs |-> <<>>,
           computerChoice |-> ROCK, output |-> <<>>]

\* the JSX of App has no element that reports a failed opponent
OpponentUnavailableShown == FALSE

Init ==
    /\ app \in Apps
    /\ games = <<>>
    /\ network = Undefined
    /\ showProbs = FALSE
    /\ dirty = FALSE
    /\ nets = <<>>
    /\ effectPc = "import"
    /\ cbGames = <<>>
    /\ cbNetwork = Undefined
    /\ mounted = TRUE
    /\ calls = <<>>
    /\ nPlays = 0
    /\ nToggles = 0
    /\ lastPlay = NoPlay

\* const m = await import('rps-network')
EffectImported ==
    /\ effectPc = "import"
    /\ effectPc' = "init"
    /\ UNCHANGED <<app, games, network, showProbs, dirty, nets, cbGames,
                   cbNetwork, mounted, calls, nPlays, nToggles, lastPlay>>

\* the effect running again on later renders (no dependency array)
EffectConstruct_Again(initial) ==
    /\ effectPc \in {"init", "done"}
    /\ Len(nets) < 2
    /\ effectPc' = "done"
    /\ nets' = Append(nets, [inputWidth |-> ConstructWidth(app), probs |-> initial])
    /\ network' = Len(nets) + 1
    /\ calls' = Append(calls, ConstructCall(Len(nets) + 1, app))
    /\ dirty' = TRUE
    /\ UNCHANGED <<app, games, showProbs, cbGames, cbNetwork, mounted, nPlays,
                   nToggles, lastPlay>>

\* await m.default(); setNetwork(new m.RPSNetwork(...))
EffectConstruct(initial) ==
    /\ effectPc = "init"
    /\ effectPc' = "done"
    /\ nets' = Append(nets, [inputWidth |-> ConstructWidth(app), probs |-> initial])
    /\ network' = Len(nets) + 1
    /\ calls' = Append(calls, ConstructCall(Len(nets) + 1, app))
    /\ dirty' = TRUE
    /\ UNCHANGED <<app, games, showProbs, cbGames, cbNetwork, mounted, nPlays,
                   nToggles, lastPlay>>

\* How many times React 18 (createRoot) runs the body of App when it throws:
\* the failed render is retried once synchronously before the root is
\* unmounted (2 runs); a development build replays the failing component
\* once more in each attempt (4 runs).
ThrowingRenderRuns == {2, 4}

\* toggleProbs: setShowProbs((showProbs) => !showProbs)
toggleProbs ==
    /\ mounted
    /\ HasProbsTable(app)
    /\ showProbs' = ~showProbs
    /\ dirty' = TRUE
    /\ nToggles' = nToggles + 1
    /\ UNCHANGED <<app, games, network, nets, effectPc, cbGames, cbNetwork,
                   mounted, calls, nPlays, lastPlay>>

\* The re-render React runs after a state setter (setGames, setNetwork,
\* setShowProbs): the new playGame closure captures the current games and
\* network.  In the builds with the probability table the body also reads
\* network?.probs() and probs[0..2].toFixed(2), whatever showProbs is, and
\* the toFixed of a missing entry throws; the plain build does neither.
\* A render that throws is run again by React before the root is unmounted,
\* so the body, and its probs() read, runs ThrowingRenderRuns times.
Render ==
    /\ mounted
    /\ dirty
    /\ dirty' = FALSE
    /\ IF network = Undefined \/ ~HasProbsTable(app)
       THEN /\ cbGames' = games
            /\ cbNetwork' = network
            /\ UNCHANGED <<calls, mounted>>
       ELSE IF Len(nets[network].probs) < 3
            THEN /\ \E runs \in ThrowingRenderRuns :
                      calls' = calls \o [i \in 1..runs |-> ProbsCall(network)]
                 /\ mounted' = FALSE
                 /\ UNCHANGED <<cbGames, cbNetwork>>
            ELSE /\ calls' = Append(calls, ProbsCall(network))
                 /\ cbGames' = games
                 /\ cbNetwork' = network
                 /\ UNCHANGED mounted
    /\ UNCHANGED <<app, games, network, showProbs, nets, effectPc, nPlays,
                   nToggles, lastPlay>>

\* const computerChoice = play(network!, playerChoice)
\* setGames([...games, new Game(playerChoice, computerChoice)])
playGame(playerChoice, output, fault) ==
    /\ mounted
    /\ LET r == play(cbNetwork, playerChoice, output, fault) IN
       /\ calls' = calls \o r.calls
       /\ nets' = IF r.forwarded
                  THEN [nets EXCEPT ![cbNetwork].probs = output]
                  ELSE nets
       /\ games' = IF r.status = "ok"
                   THEN Append(cbGames, Game(playerChoice, r.computerChoice))
                   ELSE games
       /\ lastPlay' = [status |-> r.status, playerChoice |-> playerChoice,
                       probs |-> r.probs, computerChoice |-> r.computerChoice,
                       output |-> IF r.forwarded THEN output ELSE <<>>]
       /\ dirty' = (dirty \/ r.status = "ok")
    /\ nPlays' = nPlays + 1
    /\ UNCHANGED <<app, network, showProbs, effectPc, cbGames, cbNetwork,
                   mounted, nToggles>>

----------------------------------------------------------------------------
(* Specifications *)

Construct == \E initial \in ProbOutputs : EffectConstruct(initial)

\* a click on one of the three buttons, the Network honouring its contract
PlayAction ==
    /\ nPlays < MaxPlays
    /\ \E playerChoice \in Choice, output \in ProbOutputs :
           playGame(playerChoice, output, "none")

\* a click on "Show probs"
ToggleAction ==
    /\ nToggles < MaxToggles
    /\ toggleProbs

\* a click, with a Network that may throw or return a malformed vector
FaultyPlayAction ==
    /\ nPlays < MaxFaultPlays
    /\ \E playerChoice \in Choice, output \in ProbOutputs \cup MalformedOutputs,
          fault \in Faults :
           playGame(playerChoice, output, fault)

Next == EffectImported \/ Construct \/ Render \/ PlayAction \/ ToggleAction

Spec == Init /\ [][Next]_vars

NextFault ==
    EffectImported \/ Construct \/ Render \/ FaultyPlayAction \/ ToggleAction

SpecFault == Init /\ [][NextFault]_vars

\* Selection as a pure function: a mounted, rendered App whose Network holds
\* an arbitrary finite probability vector, and one play-action.
SelValues == {1, 3, 5, 7, 9}

InitSelect ==
    /\ app \in Apps
    /\ games = <<>>
    /\ network = 1
    /\ showProbs = FALSE
    /\ dirty = FALSE
    /\ nToggles = 0
    /\ \E p \in [1..3 -> SelValues] :
           nets = << [inputWidth |-> ConstructWidth(app), probs |-> p] >>
    /\ effectPc = "done"
    /\ cbGames = <<>>
    /\ cbNetwork = 1
    /\ mounted = TRUE
    /\ calls = IF HasProbsTable(app)
               THEN << ConstructCall(1, app), ProbsCall(1) >>
               ELSE << ConstructCall(1, app) >>
    /\ nPlays = 0
    /\ lastPlay = NoPlay

SelectPlayAction ==
    /\ nPlays < MaxSelPlays
    /\ \E playerChoice \in Choice, output \in ProbOutputs :
           playGame(playerChoice, output, "none")

NextSelect == SelectPlayAction \/ Render \/ ToggleAction

SpecSelect == InitSelect /\ [][NextSelect]_vars

----------------------------------------------------------------------------
(* Vocabulary of the properties, stated without the operators under test *)

\* cyclic dominance ROCK < PAPER < SCISSORS < ROCK: a beats b
Beats(a, b) == (a - b) % 3 = 1

\* the choice that beats c
Beater(c) == (c + 1) % 3

\* c is the smallest index at which the 3-entry vector p is maximal
IsLowestArgMax(p, c) ==
    /\ \A j \in 0..2 : p[j + 1] <= p[c + 1]
    /\ \A j \in 0..(c - 1) : p[j + 1] < p[c + 1]

ArgMax(p) == CHOOSE c \in 0..2 : IsLowestArgMax(p, c)

\* a vector that honours the Network contract: 3 entries, all finite
WellFormed(p) ==
    /\ Len(p) >= 3
    /\ \A i \in 1..Len(p) : p[i] # NotANumber /\ p[i] # PosInfinity

IsTraining(c) == c.op \in {"backward", "forward"}
IsForward(c) == c.op = "forward"
IsConstruct(c) == c.op = "construct"

\* the calls the step from the current state to the next adds to the log
NewCalls == SubSeq(calls', Len(calls) + 1, Len(calls'))

\* the step is a playGame invocation
PlayStep == nPlays' = nPlays + 1

\* the playGame closure holds a constructed Network (Ready) or none
Ready == cbNetwork # Undefined
AwaitingNetwork == cbNetwork = Undefined

----------------------------------------------------------------------------
(* C1: every play-action performed in the Ready state makes the Network    *)
(* observe exactly one backward call and then exactly one forward call,    *)
(* the backward target being the choice that beats the player's choice.    *)
C1_BackwardThenForward ==
    [][ (PlayStep /\ Ready) =>
          LET new == SelectSeq(NewCalls, IsTraining) IN
            /\ Len(new) = 2
            /\ new[1].op = "backward"
            /\ new[2].op = "forward"
            /\ new[1].target = Beater(lastPlay'.playerChoice) ]_vars

C1_Witness ==
    /\ lastPlay.status = "ok"
    /\ lastPlay.playerChoice = ROCK
    /\ Len(calls) >= 3
    /\ calls[Len(calls) - 1].op = "backward"
    /\ calls[Len(calls) - 1].target = PAPER
    /\ calls[Len(calls)].op = "forward"

(* C2: after N completed play-actions the history holds exactly N rounds   *)
(* (every completed play-action made one forward call).                    *)
C2_HistoryLength ==
    Len(games) = Len(SelectSeq(calls, IsForward))

(* C3: a play-action attempted while the callback has no Network leaves    *)
(* the history unchanged, makes no Network call and throws (the TypeError  *)
(* of reading probs on undefined is the not-ready signal).                 *)
C3_NotReadyRejected ==
    [][ (PlayStep /\ AwaitingNetwork) =>
          /\ games' = games
          /\ calls' = calls
          /\ nets' = nets
          /\ lastPlay'.status = "TypeError" ]_vars

C3_Witness ==
    /\ effectPc # "done"
    /\ nPlays >= 1
    /\ lastPlay.status = "TypeError"
    /\ games = <<>>
    /\ calls = <<>>

(* C4: the selection returns the smallest index whose value is maximal:    *)
(* [0.5,0.5,0.5] gives ROCK, [0.3,0.3,0.9] SCISSORS, [0.1,0.7,0.7] PAPER.  *)
C4_GreedyArgMax ==
    lastPlay.status = "ok" =>
      /\ IsLowestArgMax(lastPlay.probs, lastPlay.computerChoice)
      /\ (lastPlay.probs = <<5, 5, 5>> => lastPlay.computerChoice = ROCK)
      /\ (lastPlay.probs = <<3, 3, 9>> => lastPlay.computerChoice = SCISSORS)
      /\ (lastPlay.probs = <<1, 7, 7>> => lastPlay.computerChoice = PAPER)

C4_Witness ==
    /\ lastPlay.status = "ok"
    /\ lastPlay.probs = <<1, 7, 7>>
    /\ lastPlay.computerChoice = PAPER
    /\ games[Len(games)].computerChoice = PAPER

(* C5: the outcome of every recorded game follows the cyclic dominance:    *)
(* Player when the player's choice beats the computer's, Computer when the *)
(* computer's beats the player's, Draw exactly when the two are equal.     *)
C5_OutcomeCyclic ==
    \A i \in 1..Len(games) :
      LET g == games[i] IN
        /\ outcome(g) = OutcomePlayer <=> Beats(g.playerChoice, g.computerChoice)
        /\ outcome(g) = OutcomeComputer <=> Beats(g.computerChoice, g.playerChoice)
        /\ outcome(g) = OutcomeDraw <=> g.playerChoice = g.computerChoice

C5_Witness ==
    /\ Len(games) = 2
    /\ games[1] = Game(ROCK, SCISSORS) /\ outcome(games[1]) = OutcomePlayer
    /\ games[2] = Game(ROCK, PAPER) /\ outcome(games[2]) = OutcomeComputer

(* C6, as claimed: the computerChoice of the appended Round is the         *)
(* selection applied to the vector produced by that same play-action's     *)
(* forward call.                                                           *)
C6_SelectAfterForward ==
    lastPlay.status = "ok" =>
      games[Len(games)].computerChoice = ArgMax(lastPlay.output)

(* C6, amended: selection comes first in every build: the computerChoice   *)
(* of the appended Round is the selection applied to the vector the        *)
(* Network held when the play-action began, read before this play-action's *)
(* backward and forward; the Network then observes backward and then       *)
(* forward, and the Round is appended last.  The place of encode depends   *)
(* on the build: in the extended build the input is encoded after the      *)
(* selection (it carries the selected choice) and is passed to forward     *)
(* only; in the minimal and plain builds the input is encoded before       *)
(* backward, which receives the same vector as forward.                    *)
C6_SelectBeforeTraining ==
    [][ (PlayStep /\ Ready) =>
          LET selected == ArgMax(nets[cbNetwork].probs) IN
          /\ Len(NewCalls) = 3
          /\ NewCalls[1].op = "probs"
          /\ NewCalls[2].op = "backward"
          /\ NewCalls[3].op = "forward"
          /\ IF app = "extended"
             THEN /\ NewCalls[2].input = <<>>
                  /\ Len(NewCalls[3].input) = 6
                  /\ \A c \in Choice :
                       NewCalls[3].input[3 + c + 1] = (IF c = selected THEN 1 ELSE 0)
             ELSE /\ Len(NewCalls[2].input) = 3
                  /\ NewCalls[2].input[lastPlay'.playerChoice + 1] = 1
                  /\ NewCalls[3].input = NewCalls[2].input
          /\ Len(games') >= 1
          /\ games'[Len(games')] = Game(lastPlay'.playerChoice, selected)
          /\ nets'[cbNetwork].probs = lastPlay'.output ]_vars

C6_Witness ==
    /\ lastPlay.status = "ok"
    /\ ArgMax(lastPlay.probs) # ArgMax(lastPlay.output)
    /\ games[Len(games)].computerChoice = ArgMax(lastPlay.probs)

(* C7: every backward call is preceded by a forward call on the same       *)
(* Network instance.                                                       *)
C7_ForwardBeforeBackward ==
    \A i \in 1..Len(calls) :
      calls[i].op = "backward" =>
        \E j \in 1..(i - 1) :
          calls[j].op = "forward" /\ calls[j].inst = calls[i].inst

(* C8: when a Network call fails during a play-action, no Round is         *)
(* appended and the App shows an opponent-unavailable state.               *)
C8_FailureSurfaced ==
    [][ (PlayStep /\ lastPlay'.status = "NetworkError") =>
          /\ games' = games
          /\ OpponentUnavailableShown ]_vars

(* C9: a play-action whose probability vector has fewer than 3 entries or  *)
(* a non-finite entry never completes with a Choice and a new Round.       *)
C9_MalformedRejected ==
    (lastPlay.status = "ok") => WellFormed(lastPlay.probs)

(* C10: at most one Network instance is ever constructed, exactly one once *)
(* the App holds a Network; every Network call is made on that instance    *)
(* and after its construction.                                             *)
C10_SingleNetwork ==
    /\ Len(nets) <= 1
    /\ Len(SelectSeq(calls, IsConstruct)) = Len(nets)
    /\ network \in {Undefined, 1}
    /\ cbNetwork \in {Undefined, network}
    /\ (network # Undefined \/ effectPc = "done") => Len(nets) = 1
    /\ \A i \in 1..Len(calls) :
         /\ calls[i].inst = 1
         /\ (calls[i].op = "construct") <=> (i = 1)

C10_Witness ==
    /\ Len(nets) = 1
    /\ Len(games) = 2
    /\ lastPlay.status = "ok"
    /\ Len(SelectSeq(calls, IsForward)) = 2
    /\ calls[1].op = "construct"

----------------------------------------------------------------------------
(* Vocabulary of the encoding properties *)

IsBackward(c) == c.op = "backward"

\* v has exactly the entries 0 and 1, with 1 exactly at the 0-based indices in ones
OneHotAt(v, width, ones) ==
    /\ Len(v) = width
    /\ \A i \in 0..(width - 1) : v[i + 1] = (IF i \in ones THEN 1 ELSE 0)

\* the forward calls observed so far
Forwards == SelectSeq(calls, IsForward)
Backwards == SelectSeq(calls, IsBackward)

(* C11: in the extended build the input vector of a play-action has length *)
(* 6, value 1 at index playerChoice and at index 3 + computerChoice, and 0 *)
(* at the four other indices.                                              *)
C11_ExtendedInput ==
    [][ (PlayStep /\ Ready /\ app = "extended") =>
          LET input == NewCalls[Len(NewCalls)].input IN
            /\ NewCalls[Len(NewCalls)].op = "forward"
            /\ OneHotAt(input, 6, {lastPlay'.playerChoice,
                                   3 + lastPlay'.computerChoice})
            /\ Cardinality({i \in 1..Len(input) : input[i] = 0}) = 4 ]_vars

C11_Witness ==
    /\ app = "extended"
    /\ lastPlay.status = "ok"
    /\ lastPlay.playerChoice = PAPER
    /\ lastPlay.computerChoice = PAPER
    /\ Len(Forwards) >= 1
    /\ Forwards[Len(Forwards)].input = <<0, 1, 0, 0, 1, 0>>

(* C12: in the minimal layout (the minimal and plain builds) the input     *)
(* vector of a play-action has length 3 with exactly one 1, at index       *)
(* playerChoice, and the same vector is passed to backward and to forward. *)
C12_MinimalInput ==
    [][ (PlayStep /\ Ready /\ app # "extended") =>
          LET new == SelectSeq(NewCalls, IsTraining) IN
            /\ Len(new) = 2
            /\ new[1].op = "backward"
            /\ new[2].op = "forward"
            /\ OneHotAt(new[2].input, 3, {lastPlay'.playerChoice})
            /\ new[1].input = new[2].input ]_vars

C12_Witness ==
    /\ app = "minimal"
    /\ lastPlay.status = "ok"
    /\ lastPlay.playerChoice = SCISSORS
    /\ lastPlay.computerChoice = ROCK
    /\ Forwards[Len(Forwards)].input = <<0, 0, 1>>
    /\ Backwards[Len(Backwards)].input = <<0, 0, 1>>

(* C13: every vector passed to forward has the input width its Network was *)
(* constructed with: 6 in the extended build, 3 in the minimal build.      *)
C13_ForwardWidth ==
    \A i \in 1..Len(calls) :
      calls[i].op = "forward" =>
        /\ Len(calls[i].input) = nets[calls[i].inst].inputWidth
        /\ Len(calls[i].input) = calls[1].inputWidth
        /\ Len(calls[i].input) = (IF app = "extended" THEN 6 ELSE 3)

C13_Witness ==
    /\ Len(Forwards) = 2
    /\ calls[1].op = "construct"
    /\ calls[1].inputWidth = 6
    /\ \A i \in 1..2 : Len(Forwards[i].input) = 6

(* C14: the learning rate passed to backward is 0.1 in every play-action,  *)
(* whatever the round, the choices and the history.                        *)
C14_FixedLearningRate ==
    \A i \in 1..Len(calls) :
      calls[i].op = "backward" => calls[i].lr = 1

C14_Witness ==
    /\ Len(Backwards) = 2
    /\ Len(games) = 2
    /\ Backwards[1].target # Backwards[2].target
    /\ games[1].computerChoice # games[2].computerChoice
    /\ \A i \in 1..2 : Backwards[i].lr = 1

(* C15: the computer's choice of a play-action is the lowest-index arg-max *)
(* of the vector produced by the forward call of the play-action before    *)
(* it, which is the vector the Network holds between the two.              *)
C15_PreviousForwardDecides ==
    [][ (PlayStep /\ Ready /\ lastPlay.status = "ok") =>
          /\ nets[cbNetwork].probs = lastPlay.output
          /\ lastPlay'.status = "ok"
          /\ lastPlay'.computerChoice = ArgMax(lastPlay.output)
          /\ games'[Len(games')].computerChoice = ArgMax(lastPlay.output) ]_vars

C15_Witness ==
    /\ nPlays >= 2
    /\ lastPlay.status = "ok"
    /\ Len(games) >= 2
    /\ games[Len(games)].computerChoice = SCISSORS
    /\ games[Len(games) - 1].computerChoice = PAPER
    /\ lastPlay.probs = <<3, 3, 9>>
    /\ lastPlay.output = <<9, 3, 1>>

(* C16: in the extended build the most recent forward input encodes the    *)
(* (playerChoice, computerChoice) pair of the last history entry.          *)
C16_InputMatchesLastRound ==
    (app = "extended" /\ Len(Forwards) >= 1) =>
      /\ Len(games) >= 1
      /\ LET g == games[Len(games)] IN
           OneHotAt(Forwards[Len(Forwards)].input, 6,
                    {g.playerChoice, 3 + g.computerChoice})

C16_Witness ==
    /\ app = "extended"
    /\ Len(games) = 2
    /\ games[1] = Game(ROCK, PAPER)
    /\ games[2] = Game(SCISSORS, ROCK)
    /\ Forwards[Len(Forwards)].input = <<0, 0, 1, 1, 0, 0>>

====
